---- MODULE Spec2Model ----
(***************************************************************************)
(* Distributed data-parallel training driver of igb/train_multi_hetero.py. *)
(*                                                                         *)
(* mp.spawn starts nprocs workers that each execute run(proc_id, ...).     *)
(* Every worker owns a copy of the model, the optimizer and the learning-  *)
(* rate schedule; the workers meet in the collectives of the process       *)
(* group: the barrier that DGL's DDP dataset issues when the train loader  *)
(* is re-shuffled (shuffle=True, use_ddp=True) and the gradient all-reduce *)
(* that DistributedDataParallel issues in loss.backward().                 *)
(*                                                                         *)
(* The model (RGCN/RSAGE/RGAT) and the neighbour sampler are black boxes:  *)
(* a gradient is some function of the minibatch and the parameters, an     *)
(* accuracy is drawn from the set of scores the run's model can reach.     *)
(***************************************************************************)
EXTENDS Integers, Sequences, FiniteSets, TLC

VARIABLES
    nprocs,         \* len(gpu_idx): number of spawned workers (line 225)
    args,           \* the parsed arguments run() reads
    g,              \* the graph's train/val/test masks of the predict category
    acc_values,     \* accuracies (in percent) the black-box model can score
    oom,            \* worker whose forward/backward may raise (-1: none)
    train_nid,      \* line 41
    val_nid,        \* line 42
    test_nid,       \* line 43
    train_indices,  \* shared index array of the train loader's DDP dataset
    pc,             \* per worker: position in run()
    epoch,          \* per worker: loop variable of line 103
    accs,           \* per worker: len(accs), batches trained this epoch
    train_iter,     \* per worker: seeds its train iterator has yet to yield
    model,          \* per worker: parameters of its model replica
    grad,           \* per worker: gradient held after backward
    pending,        \* per worker: collective it has entered and not left
    sched,          \* per worker: StepLR state [last_epoch, decays]
    best_accuracy,  \* per worker: line 101
    val_acc,        \* per worker: line 148
    checkpoint,     \* file at args.modelpath
    exit_code,      \* result of mp.spawn in the parent process
    seen_train,     \* observation: per worker, batches drawn in its last epoch
    val_seen,       \* observation: seeds of the last validation pass
    test_seen,      \* observation: seeds of the test pass
    evals,          \* observation: validation passes [rank, epoch, acc, ...]
    writes,         \* observation: [rank, epoch] of every torch.save
    log,            \* observation: lines printed by the leader
    test_runs,      \* observation: per worker, test passes started
    opt_steps       \* observation: per worker, optimizer steps taken

vars == << nprocs, args, g, acc_values, oom, train_nid, val_nid, test_nid,
           train_indices, pc, epoch, accs, train_iter, model, grad, pending,
           sched, best_accuracy, val_acc, checkpoint, exit_code,
           seen_train, val_seen, test_seen, evals, writes, log, test_runs,
           opt_steps >>

config_vars == << nprocs, args, g, acc_values, oom, train_nid, val_nid,
                 test_nid >>

-----------------------------------------------------------------------------
(* Bounds of the exhaustively explored family of runs.                     *)

MaxWorkers == 2
MaxEpochs == 2
MaxSeeds == 3
MaxShuffleLen == 2

(* torch.manual_seed(0): every worker builds its model from the same seed. *)
ManualSeed == 0

(* Parameters and gradients live in a small ring.                          *)
ParamMod == 3

NoFile == [epoch |-> -1, state |-> -1]

-----------------------------------------------------------------------------
(* Helpers                                                                 *)

Ranks == 0 .. (nprocs - 1)

Ceil(a, b) == (a + b - 1) \div b

Range(s) == {s[i] : i \in 1 .. Len(s)}

RECURSIVE Concat(_)
Concat(ss) == IF ss = << >> THEN << >> ELSE Head(ss) \o Concat(Tail(ss))

RECURSIVE SumSeq(_)
SumSeq(s) == IF s = << >> THEN 0 ELSE Head(s) + SumSeq(Tail(s))

Count(s, x) == Cardinality({i \in 1 .. Len(s) : s[i] = x})

Max(a, b) == IF a < b THEN b ELSE a

(* torch.nonzero(mask, as_tuple=True)[0]: the ids set in mask, ascending.  *)
RECURSIVE Nonzero(_)
Nonzero(mask) ==
    IF mask = {} THEN << >>
    ELSE LET m == CHOOSE x \in mask : \A y \in mask : x <= y
         IN  << m >> \o Nonzero(mask \ {m})

-----------------------------------------------------------------------------
(* The loaders: dgl.dataloading.DataLoader(..., use_ddp=True)              *)
(*                                                                         *)
(* With use_ddp=True the seeds of a loader are held by a DDP dataset: one  *)
(* index array shared by all ranks, padded so that it divides evenly among *)
(* the ranks, of which rank r reads the r-th contiguous share.             *)

(* drop_last=False of the three loaders (lines 48, 54, 60).                *)
DropLastMut == TRUE
DropLast == FALSE

(* Seeds per rank.                                                         *)
NumSamples(n) ==
    IF DropLast /\ n % nprocs # 0
    THEN Ceil(n - nprocs, nprocs)
    ELSE Ceil(n, nprocs)

TotalSize(n) == NumSamples(n) * nprocs

SharedMemSize(n) == IF DropLast THEN n ELSE TotalSize(n)

(* The index array as first created: arange(n), then arange(padding).      *)
CreateSharedIndices(n) ==
    [i \in 1 .. SharedMemSize(n) |-> IF i <= n THEN i - 1 ELSE i - n - 1]

(* "pad extra": indices[n:] = indices[:total_size - n].                    *)
PadExtra(ind, n) ==
    IF DropLast THEN ind
    ELSE [i \in 1 .. Len(ind) |-> IF i <= n THEN ind[i] ELSE ind[i - n]]

(* The padding copies a slice of the array onto an overlapping slice of    *)
(* itself when more than n entries are missing; torch refuses that copy.   *)
PadOverlaps(n) == ~DropLast /\ TotalSize(n) - n > n

(* use_ddp=True: rank r reads indices[num_samples*r : num_samples*(r+1)].  *)
ShardUnpadded(nid, ind, rank) ==
    LET k == NumSamples(Len(nid))
        m == IF k * (rank + 1) <= Len(nid) THEN k
             ELSE IF k * rank >= Len(nid) THEN 0 ELSE Len(nid) - k * rank
    IN  [i \in 1 .. m |-> nid[ind[k * rank + i] + 1]]
Shard(nid, ind, rank) ==
    LET k == NumSamples(Len(nid))
    IN  [i \in 1 .. k |-> nid[ind[k * rank + i] + 1]]

(* batch_size seeds per minibatch; the short last one is kept unless       *)
(* drop_last.                                                              *)
RECURSIVE Batches(_, _)
Batches(seeds, bs) ==
    IF Len(seeds) = 0 THEN << >>
    ELSE IF Len(seeds) <= bs
         THEN (IF DropLast /\ Len(seeds) < bs THEN << >> ELSE << seeds >>)
         ELSE << SubSeq(seeds, 1, bs) >> \o Batches(SubSeq(seeds, bs + 1, Len(seeds)), bs)

Reverse(s) == [i \in 1 .. Len(s) |-> s[Len(s) + 1 - i]]

Rotate(s) == IF s = << >> THEN s ELSE Tail(s) \o << Head(s) >>

Orders(s) ==
    LET n == Len(s)
        P == {p \in [1 .. n -> 1 .. n] : \A i, j \in 1 .. n : p[i] = p[j] => i = j}
    IN  {[i \in 1 .. n |-> s[p[i]]] : p \in P}

(* np.random.shuffle of the first n entries: any order of them (for long   *)
(* arrays, three representative orders).                                   *)
Shuffles(ind, n) ==
    LET head == SubSeq(ind, 1, n)
        tail == SubSeq(ind, n + 1, Len(ind))
        orders == IF n <= MaxShuffleLen
                  THEN Orders(head)
                  ELSE {head, Reverse(head), Rotate(head)}
    IN  {o \o tail : o \in orders}

(* The validation and test loaders have shuffle=False: their index arrays  *)
(* stay as created.                                                        *)
EvalShard(nid, rank) == Shard(nid, CreateSharedIndices(Len(nid)), rank)

-----------------------------------------------------------------------------
(* The model replica, the optimizer and the schedule                       *)

(* Model construction under torch.manual_seed(0) (lines 10, 65-75).        *)
InitParams(seed) == seed % ParamMod

(* DistributedDataParallel(model) broadcasts rank 0's state to all ranks.  *)
DDPWrap(local) == [w \in DOMAIN local |-> local[0]]

(* loss.backward() before the all-reduce: the replica's own gradient on    *)
(* the minibatch.                                                          *)
LocalGrad(batch, p) == (SumSeq(batch) + p) % 2

(* The gradient all-reduce of backward: every rank gets the mean.          *)
AllReduceMeanMut(gs) == gs
AllReduceMean(gs) ==
    LET s == SumSeq([i \in 1 .. nprocs |-> gs[i - 1]])
    IN  [w \in Ranks |-> s \div nprocs]

(* optimizer.step(): one update of length lr = learning_rate * gamma^d,    *)
(* d the number of decays applied so far.                                  *)
AdamStep(p, gr, d) == (p + gr * (d + 1)) % ParamMod

(* StepLR(optimizer, step_size, gamma) at construction.                    *)
NewStepLR == [last_epoch |-> 0, decays |-> 0]

(* StepLR.step(): count the epoch; multiply the rate by gamma when the     *)
(* count is a non-zero multiple of step_size.                              *)
SchedStepMut(s, step_size) ==
    [last_epoch |-> s.last_epoch + 1,
     decays |-> IF s.last_epoch % step_size = 0
                THEN s.decays + 1 ELSE s.decays]
SchedStep(s, step_size) ==
    [last_epoch |-> s.last_epoch + 1,
     decays |-> IF (s.last_epoch + 1) # 0 /\ (s.last_epoch + 1) % step_size = 0
                THEN s.decays + 1 ELSE s.decays]

(* for epoch in range(args.epochs) (line 103): no epoch is left.           *)
LoopDoneMut(e) == e >= args.epochs - 1
LoopDone(e) == e >= args.epochs

(* The models of models.py (RGCN, RSAGE, RGAT) register no buffers, so a   *)
(* forward pass of the wrapped model issues no collective of its own; a    *)
(* forward pass that did would wait for the other ranks to issue it too.   *)
ForwardSyncsBuffers == FALSE

EvalForwardReturns == ~ForwardSyncsBuffers \/ nprocs = 1

(* proc_id == 0 (lines 136, 168).                                          *)
IsLeaderMut(w) == TRUE
IsLeader(w) == w = 0

(* epoch % args.log_every == 0 (line 137).                                 *)
EvalEpochMut(e) == TRUE
EvalEpoch(e) == e % args.log_every = 0

(* best_accuracy < val_acc (line 149).                                     *)
ImprovesMut(best, acc) == best <= acc
ImprovesStale(best, acc) == 0 < acc
Improves(best, acc) == best < acc

(* if args.model_save (line 151).                                          *)
SaveEnabledMut == TRUE
SaveEnabled == args.model_save

(* sum(accs) / len(accs) (line 132): ZeroDivisionError on an empty list.   *)
MeanRaisesMut(n) == FALSE
MeanRaises(n) == n = 0

(* np.concatenate(predictions) (lines 146, 177): ValueError on an empty    *)
(* list.                                                                   *)
ConcatenateRaises(batches) == batches = << >>

(* Where worker w goes after the training of epoch e (lines 135-165): the  *)
(* leader validates on an evaluation epoch; the log line is printed inside *)
(* that branch; everything else goes straight to sched.step().             *)
AfterTrainingMut(w, e) ==
    IF IsLeader(w) THEN (IF EvalEpoch(e) THEN "validate" ELSE "print")
    ELSE "sched"
AfterTraining(w, e) ==
    IF IsLeader(w) /\ EvalEpoch(e) THEN "validate" ELSE "sched"

(* model(blocks, batch_inputs) and loss.backward() (lines 116, 119, 145,   *)
(* 176) raise when the worker's device runs out of memory.                 *)
Raises(w) == oom = w

-----------------------------------------------------------------------------
(* Collectives of the process group                                        *)
(*                                                                         *)
(* A rank that enters a collective waits in it until every rank of the     *)
(* group has entered the same collective; then all of them may leave.      *)

EnterMut(w, kind, gr) ==
    /\ pending' = [pending EXCEPT ![w] = "ready"]
    /\ grad' = [grad EXCEPT ![w] = gr]
Enter(w, kind, gr) ==
    LET p1 == [pending EXCEPT ![w] = kind]
        g1 == [grad EXCEPT ![w] = gr]
    IN  IF \A r \in Ranks : p1[r] = kind
        THEN /\ pending' = [r \in Ranks |-> "ready"]
             /\ grad' = IF kind = "allreduce" THEN AllReduceMean(g1) ELSE g1
        ELSE /\ pending' = p1
             /\ grad' = g1

-----------------------------------------------------------------------------
(* Runs explored                                                           *)

(* A graph whose predict category has tr train, va validation and te test  *)
(* nodes, in that order of node id.                                        *)
Graph(tr, va, te) ==
    [train_mask |-> 0 .. (tr - 1),
     val_mask   |-> tr .. (tr + va - 1),
     test_mask  |-> (tr + va) .. (tr + va + te - 1)]

Args(b, e, k, s, z) ==
    [batch_size |-> b, epochs |-> e, log_every |-> k, model_save |-> s,
     sched_stepsize |-> z]

(* Small graphs and batch sizes under every worker and epoch count, with   *)
(* every epoch evaluated and checkpointed, and a model that scores 50.     *)
EvalSizes == {<< 0, 1 >>, << 1, 0 >>, << 1, 1 >>, << 2, 2 >>}

DataRuns ==
    {[nprocs |-> n, args |-> Args(b, e, 1, TRUE, 1),
      g |-> Graph(tr, ev[1], ev[2]), acc |-> {50}] :
        n \in 1 .. MaxWorkers, b \in {1, 2}, e \in 0 .. MaxEpochs,
        tr \in 0 .. MaxSeeds, ev \in EvalSizes}

(* Every evaluation interval, checkpoint switch and schedule step under    *)
(* every worker and epoch count, on one small graph, with a model that     *)
(* scores 0 or 50.                                                         *)
PolicyRuns ==
    {[nprocs |-> n, args |-> Args(1, e, k, s, z), g |-> Graph(2, 1, 1),
      acc |-> {0, 50}] :
        n \in 1 .. MaxWorkers, e \in 0 .. MaxEpochs, k \in {1, 2},
        s \in BOOLEAN, z \in {1, 2}}

SmallRuns == DataRuns \cup PolicyRuns

(* 100 predict nodes (70 train, 15 validation, 15 test), batch size 10,    *)
(* two workers, one epoch.                                                 *)
ToyRun ==
    [nprocs |-> 2, args |-> Args(10, 1, 5, FALSE, 25), g |-> Graph(70, 15, 15),
     acc |-> {50}]

(* Sixty epochs under the default schedule step of 25.                     *)
LongRun ==
    [nprocs |-> 2, args |-> Args(1, 60, 5, TRUE, 25), g |-> Graph(2, 1, 1),
     acc |-> {50}]

(* Four evaluated epochs of a model that scores 40, 50, 55 or 70.          *)
AccuracyRun ==
    [nprocs |-> 1, args |-> Args(1, 4, 1, TRUE, 25), g |-> Graph(1, 1, 1),
     acc |-> {40, 50, 55, 70}]

(* A graph whose node 1 is set in all three masks.                         *)
OverlapRun ==
    [nprocs |-> 1, args |-> Args(1, 1, 1, FALSE, 1),
     g |-> [train_mask |-> {0, 1}, val_mask |-> {1, 2}, test_mask |-> {1, 3}],
     acc |-> {50}]

Runs == SmallRuns \cup {ToyRun, LongRun, AccuracyRun, OverlapRun}

(* The runs in which one worker's device may run out of memory: every      *)
(* worker and epoch count, every epoch evaluated and checkpointed.         *)
FaultRuns ==
    {[nprocs |-> n, args |-> Args(1, e, 1, TRUE, 1), g |-> Graph(2, 1, 1),
      acc |-> {0, 50}] : n \in 1 .. MaxWorkers, e \in 0 .. MaxEpochs}

Faults(r) == IF r \in FaultRuns THEN -1 .. (r.nprocs - 1) ELSE {-1}

Init ==
    /\ \E r \in Runs :
        /\ nprocs = r.nprocs
        /\ args = r.args
        /\ g = r.g
        /\ acc_values = r.acc
        /\ oom \in Faults(r)
    /\ train_nid = Nonzero(g.train_mask)
    /\ val_nid = Nonzero(g.val_mask)
    /\ test_nid = Nonzero(g.test_mask)
    /\ train_indices = CreateSharedIndices(Len(train_nid))
    /\ pc = [w \in Ranks |-> "for_epoch"]
    /\ epoch = [w \in Ranks |-> 0]
    /\ accs = [w \in Ranks |-> 0]
    /\ train_iter = [w \in Ranks |-> << >>]
    /\ model = DDPWrap([w \in Ranks |-> InitParams(ManualSeed)])
    /\ grad = [w \in Ranks |-> 0]
    /\ pending = [w \in Ranks |-> "none"]
    /\ sched = [w \in Ranks |-> NewStepLR]
    /\ best_accuracy = [w \in Ranks |-> 0]
    /\ val_acc = [w \in Ranks |-> -1]
    /\ checkpoint = NoFile
    /\ exit_code = -1
    /\ seen_train = [w \in Ranks |-> << >>]
    /\ val_seen = << >>
    /\ test_seen = << >>
    /\ evals = << >>
    /\ writes = << >>
    /\ log = << >>
    /\ test_runs = [w \in Ranks |-> 0]
    /\ opt_steps = [w \in Ranks |-> 0]

-----------------------------------------------------------------------------
(* run(proc_id, devices, g, args), one action per step of worker w         *)

(* Line 103 with epochs left, lines 106-111, and the start of line 112:    *)
(* iterating the train loader re-shuffles its dataset. Rank 0 shuffles the *)
(* shared array and pads it, then every rank enters the barrier.           *)
EpochBegin(w) ==
    /\ pc[w] = "for_epoch"
    /\ ~LoopDone(epoch[w])
    /\ accs' = [accs EXCEPT ![w] = 0]
    /\ IF w = 0 /\ PadOverlaps(Len(train_nid))
       THEN /\ pc' = [pc EXCEPT ![w] = "Failed"]
            /\ UNCHANGED << train_indices, pending, grad >>
       ELSE /\ pc' = [pc EXCEPT ![w] = "shuffle"]
            /\ IF w = 0
               THEN \E o \in Shuffles(train_indices, Len(train_nid)) :
                        train_indices' = PadExtra(o, Len(train_nid))
               ELSE UNCHANGED train_indices
            /\ Enter(w, "barrier", grad[w])
    /\ UNCHANGED << config_vars, epoch, train_iter, model, sched,
                    best_accuracy, val_acc, checkpoint, exit_code, seen_train,
                    val_seen, test_seen, evals, writes, log, test_runs, opt_steps >>

(* Line 112, after the barrier: the rank's iterator takes its share of the *)
(* shared array and cuts it into minibatches.                              *)
IterTrain(w) ==
    /\ pc[w] = "shuffle"
    /\ pending[w] = "ready"
    /\ pending' = [pending EXCEPT ![w] = "none"]
    /\ train_iter' = [train_iter EXCEPT
                        ![w] = Batches(Shard(train_nid, train_indices, w),
                                       args.batch_size)]
    /\ seen_train' = [seen_train EXCEPT ![w] = << >>]
    /\ pc' = [pc EXCEPT ![w] = "train"]
    /\ UNCHANGED << config_vars, train_indices, epoch, accs, model, grad,
                    sched, best_accuracy, val_acc, checkpoint, exit_code,
                    val_seen, test_seen, evals, writes, log, test_runs, opt_steps >>

(* Lines 112-120: draw a minibatch, forward, loss, zero_grad, backward;    *)
(* backward enters the gradient all-reduce, unless the pass raises.        *)
Backward(w) ==
    /\ pc[w] = "train"
    /\ train_iter[w] # << >>
    /\ seen_train' = [seen_train EXCEPT ![w] = Append(@, Head(train_iter[w]))]
    /\ train_iter' = [train_iter EXCEPT ![w] = Tail(@)]
    /\ \/ /\ Enter(w, "allreduce", LocalGrad(Head(train_iter[w]), model[w]))
          /\ pc' = [pc EXCEPT ![w] = "backward"]
       \/ /\ Raises(w)
          /\ pc' = [pc EXCEPT ![w] = "Failed"]
          /\ UNCHANGED << pending, grad >>
    /\ UNCHANGED << config_vars, train_indices, epoch, accs, model, sched,
                    best_accuracy, val_acc, checkpoint, exit_code, val_seen,
                    test_seen, evals, writes, log, test_runs, opt_steps >>

(* Lines 120-130: the all-reduce returns, optimizer.step(), metrics.       *)
OptimizerStep(w) ==
    /\ pc[w] = "backward"
    /\ pending[w] = "ready"
    /\ pending' = [pending EXCEPT ![w] = "none"]
    /\ model' = [model EXCEPT ![w] = AdamStep(@, grad[w], sched[w].decays)]
    /\ accs' = [accs EXCEPT ![w] = @ + 1]
    /\ opt_steps' = [opt_steps EXCEPT ![w] = @ + 1]
    /\ pc' = [pc EXCEPT ![w] = "train"]
    /\ UNCHANGED << config_vars, train_indices, epoch, train_iter, grad, sched,
                    best_accuracy, val_acc, checkpoint, exit_code, seen_train,
                    val_seen, test_seen, evals, writes, log, test_runs >>

(* Lines 132-137: the loader is exhausted; sum(accs) / len(accs) raises    *)
(* ZeroDivisionError when no batch was drawn; else the leader goes on to   *)
(* validation on an evaluation epoch, and everyone else to sched.step().   *)
EpochEnd(w) ==
    /\ pc[w] = "train"
    /\ train_iter[w] = << >>
    /\ pc' = [pc EXCEPT ![w] =
                IF MeanRaises(accs[w]) THEN "Failed"
                ELSE AfterTraining(w, epoch[w])]
    /\ UNCHANGED << config_vars, train_indices, epoch, accs, train_iter, model,
                    grad, pending, sched, best_accuracy, val_acc, checkpoint,
                    exit_code, seen_train, val_seen, test_seen, evals, writes,
                    log, test_runs, opt_steps >>

(* Lines 138-151: drain the validation loader, score, compare with the     *)
(* best accuracy. np.concatenate raises ValueError on an empty list, and a *)
(* forward pass may raise.                                                 *)
Validate(w) ==
    /\ pc[w] = "validate"
    /\ EvalForwardReturns
    /\ LET batches == Batches(EvalShard(val_nid, w), args.batch_size)
       IN  IF ConcatenateRaises(batches)
           THEN /\ pc' = [pc EXCEPT ![w] = "Failed"]
                /\ UNCHANGED << val_acc, best_accuracy, val_seen, evals >>
           ELSE \/ \E a \in acc_values :
                    /\ val_acc' = [val_acc EXCEPT ![w] = a]
                    /\ val_seen' = Concat(batches)
                    /\ evals' = Append(evals,
                                       [rank |-> w, epoch |-> epoch[w],
                                        acc |-> a, prev |-> best_accuracy[w],
                                        state |-> model[w]])
                    /\ IF Improves(best_accuracy[w], a)
                       THEN /\ best_accuracy' = [best_accuracy EXCEPT ![w] = a]
                            /\ pc' = [pc EXCEPT ![w] =
                                        IF SaveEnabled THEN "save" ELSE "print"]
                       ELSE /\ UNCHANGED best_accuracy
                            /\ pc' = [pc EXCEPT ![w] = "print"]
                \/ /\ Raises(w)
                   /\ pc' = [pc EXCEPT ![w] = "Failed"]
                   /\ UNCHANGED << val_acc, best_accuracy, val_seen, evals >>
    /\ UNCHANGED << config_vars, train_indices, epoch, accs, train_iter, model,
                    grad, pending, sched, checkpoint, exit_code, seen_train,
                    test_seen, writes, log, test_runs, opt_steps >>

(* Line 152: torch.save(model.state_dict(), args.modelpath).               *)
Save(w) ==
    /\ pc[w] = "save"
    /\ checkpoint' = [epoch |-> epoch[w], state |-> model[w]]
    /\ writes' = Append(writes, [rank |-> w, epoch |-> epoch[w]])
    /\ pc' = [pc EXCEPT ![w] = "print"]
    /\ UNCHANGED << config_vars, train_indices, epoch, accs, train_iter, model,
                    grad, pending, sched, best_accuracy, val_acc, exit_code,
                    seen_train, val_seen, test_seen, evals, log, test_runs, opt_steps >>

(* Lines 154-163: the epoch's log line.                                    *)
PrintEpoch(w) ==
    /\ pc[w] = "print"
    /\ log' = Append(log, [kind |-> "epoch", rank |-> w, epoch |-> epoch[w],
                           acc |-> val_acc[w]])
    /\ pc' = [pc EXCEPT ![w] = "sched"]
    /\ UNCHANGED << config_vars, train_indices, epoch, accs, train_iter, model,
                    grad, pending, sched, best_accuracy, val_acc, checkpoint,
                    exit_code, seen_train, val_seen, test_seen, evals, writes,
                    test_runs, opt_steps >>

(* Line 165: sched.step(), and back to line 103.                           *)
StepSchedule(w) ==
    /\ pc[w] = "sched"
    /\ sched' = [sched EXCEPT ![w] = SchedStep(@, args.sched_stepsize)]
    /\ epoch' = [epoch EXCEPT ![w] = @ + 1]
    /\ pc' = [pc EXCEPT ![w] = "for_epoch"]
    /\ UNCHANGED << config_vars, train_indices, accs, train_iter, model, grad,
                    pending, best_accuracy, val_acc, checkpoint, exit_code,
                    seen_train, val_seen, test_seen, evals, writes, log,
                    test_runs, opt_steps >>

(* Line 103 with no epoch left, lines 167-168.                             *)
LoopExit(w) ==
    /\ pc[w] = "for_epoch"
    /\ LoopDone(epoch[w])
    /\ pc' = [pc EXCEPT ![w] = IF IsLeader(w) THEN "test" ELSE "Done"]
    /\ UNCHANGED << config_vars, train_indices, epoch, accs, train_iter, model,
                    grad, pending, sched, best_accuracy, val_acc, checkpoint,
                    exit_code, seen_train, val_seen, test_seen, evals, writes,
                    log, test_runs, opt_steps >>

(* Lines 169-181: drain the test loader, score, print, return.             *)
Test(w) ==
    /\ pc[w] = "test"
    /\ EvalForwardReturns
    /\ test_runs' = [test_runs EXCEPT ![w] = @ + 1]
    /\ LET batches == Batches(EvalShard(test_nid, w), args.batch_size)
       IN  IF ConcatenateRaises(batches)
           THEN /\ pc' = [pc EXCEPT ![w] = "Failed"]
                /\ UNCHANGED << test_seen, log >>
           ELSE \/ \E a \in acc_values :
                    /\ test_seen' = Concat(batches)
                    /\ log' = Append(log, [kind |-> "test", rank |-> w,
                                           epoch |-> epoch[w], acc |-> a])
                    /\ pc' = [pc EXCEPT ![w] = "Done"]
                \/ /\ Raises(w)
                   /\ pc' = [pc EXCEPT ![w] = "Failed"]
                   /\ UNCHANGED << test_seen, log >>
    /\ UNCHANGED << config_vars, train_indices, epoch, accs, train_iter, model,
                    grad, pending, sched, best_accuracy, val_acc, checkpoint,
                    exit_code, seen_train, val_seen, evals, writes, opt_steps >>

Worker(w) ==
    \/ EpochBegin(w)
    \/ IterTrain(w)
    \/ Backward(w)
    \/ OptimizerStep(w)
    \/ EpochEnd(w)
    \/ Validate(w)
    \/ Save(w)
    \/ PrintEpoch(w)
    \/ StepSchedule(w)
    \/ LoopExit(w)
    \/ Test(w)

-----------------------------------------------------------------------------
(* mp.spawn(run, ..., nprocs=num_gpus) in the parent (line 231)            *)

Alive(w) == pc[w] \notin {"Done", "Failed", "Killed"}

(* Exit status of the parent: mp.spawn re-raises a worker's exception.     *)
ExitStatusMut(raised) == 0
ExitStatus(raised) == IF raised THEN 1 ELSE 0

(* A worker raised: the remaining workers are terminated and the parent    *)
(* raises.                                                                 *)
SpawnAbort ==
    /\ exit_code = -1
    /\ \E w \in Ranks : pc[w] = "Failed"
    /\ pc' = [w \in Ranks |-> IF Alive(w) THEN "Killed" ELSE pc[w]]
    /\ exit_code' = ExitStatus(TRUE)
    /\ UNCHANGED << config_vars, train_indices, epoch, accs, train_iter, model,
                    grad, pending, sched, best_accuracy, val_acc, checkpoint,
                    seen_train, val_seen, test_seen, evals, writes, log,
                    test_runs, opt_steps >>

(* Every worker returned.                                                  *)
SpawnJoin ==
    /\ exit_code = -1
    /\ \A w \in Ranks : pc[w] = "Done"
    /\ exit_code' = ExitStatus(FALSE)
    /\ UNCHANGED << config_vars, train_indices, pc, epoch, accs, train_iter,
                    model, grad, pending, sched, best_accuracy, val_acc,
                    checkpoint, seen_train, val_seen, test_seen, evals, writes,
                    log, test_runs, opt_steps >>

Next ==
    \/ \E w \in Ranks : EpochBegin(w)
    \/ \E w \in Ranks : IterTrain(w)
    \/ \E w \in Ranks : Backward(w)
    \/ \E w \in Ranks : OptimizerStep(w)
    \/ \E w \in Ranks : EpochEnd(w)
    \/ \E w \in Ranks : Validate(w)
    \/ \E w \in Ranks : Save(w)
    \/ \E w \in Ranks : PrintEpoch(w)
    \/ \E w \in Ranks : StepSchedule(w)
    \/ \E w \in Ranks : LoopExit(w)
    \/ \E w \in Ranks : Test(w)
    \/ SpawnAbort
    \/ SpawnJoin

Spec == Init /\ [][Next]_vars

(* Every worker is a process of its own and the parent waits in join: a    *)
(* step that stays possible is eventually taken.                           *)
FairSpec ==
    /\ Spec
    /\ \A w \in 0 .. (MaxWorkers - 1) : WF_vars(w \in Ranks /\ Worker(w))
    /\ WF_vars(SpawnAbort)
    /\ WF_vars(SpawnJoin)

-----------------------------------------------------------------------------
(* Properties                                                              *)

Leader == 0

AllDone == \A w \in Ranks : pc[w] = "Done"

(* The leader has left the evaluation block of the last validation pass.   *)
EvalSettled == pc[Leader] \in {"print", "sched", "for_epoch", "shuffle",
                               "train", "backward", "test", "Done"}

WritesAt(e) == Cardinality({i \in 1 .. Len(writes) : writes[i].epoch = e})

AccSeq == [i \in 1 .. Len(evals) |-> evals[i].acc]

(* Evaluation steps (1-based) whose epoch saw a checkpoint write.          *)
WriteSteps == {i \in 1 .. Len(evals) : WritesAt(evals[i].epoch) > 0}

(* A validation pass of worker w that scored: what it decides.             *)
ValidateStepOK(w) ==
    (pc[w] = "validate" /\ pc'[w] \in {"save", "print"}) =>
        /\ best_accuracy'[w] = Max(best_accuracy[w], val_acc'[w])
        /\ (pc'[w] = "save") <=>
                (args.model_save /\ val_acc'[w] > best_accuracy[w])

(* Checkpoint writes recorded so far match the validation passes so far.   *)
WritesMatchEvals ==
    /\ \A i \in 1 .. Len(writes) :
            \E j \in 1 .. Len(evals) : evals[j].epoch = writes[i].epoch
    /\ \A j \in 1 .. Len(evals) :
            (j < Len(evals) \/ EvalSettled) =>
                WritesAt(evals[j].epoch) =
                    IF args.model_save /\ evals[j].acc > evals[j].prev
                    THEN 1 ELSE 0

(* C1: the leader's best-accuracy tracker starts at 0 and never decreases; *)
(* with model_save a validation pass leads to a checkpoint write exactly   *)
(* when its accuracy is strictly greater than the tracker was before it    *)
(* (an equal accuracy writes nothing), and after the pass the tracker is   *)
(* the maximum of its old value and that accuracy.                         *)
C1_TrackerAndWrites ==
    /\ best_accuracy[Leader] = 0
    /\ [][/\ best_accuracy'[Leader] >= best_accuracy[Leader]
          /\ ValidateStepOK(Leader)
          /\ (pc[Leader] = "save" /\ pc'[Leader] = "print") =>
                writes' = Append(writes, [rank |-> Leader,
                                          epoch |-> epoch[Leader]])
          /\ writes' # writes => pc[Leader] = "save"]_vars
    /\ []WritesMatchEvals

(* An equal accuracy came after a write and wrote nothing.                 *)
C1_Witness ==
    /\ args.model_save
    /\ Len(evals) = 2
    /\ evals[1].acc = 50 /\ evals[2].acc = 50
    /\ Len(writes) = 1
    /\ pc[Leader] = "Done"

(* C2 as stated: the accuracies 40, 55, 50, 70 of four validation passes   *)
(* give exactly two checkpoint writes, at passes 1 and 4.                  *)
C2_Original ==
    (args.model_save /\ AccSeq = << 40, 55, 50, 70 >> /\ EvalSettled) =>
        (Len(writes) = 2 /\ WriteSteps = {1, 4})

(* C2, amended: the accuracies 40, 55, 50, 70 of four validation passes    *)
(* give exactly three checkpoint writes, at passes 1, 2 and 4.             *)
C2_ThreeWrites ==
    (args.model_save /\ AccSeq = << 40, 55, 50, 70 >> /\ EvalSettled) =>
        (Len(writes) = 3 /\ WriteSteps = {1, 2, 4})

C2_Witness ==
    /\ args.model_save
    /\ AccSeq = << 40, 55, 50, 70 >>
    /\ best_accuracy[Leader] = 70
    /\ pc[Leader] = "Done"

-----------------------------------------------------------------------------
(* Coverage of the seed sets                                               *)

(* Worker w has drawn every minibatch of the epoch it trained last, and    *)
(* seen_train[w] still holds them.                                         *)
Drained(w) ==
    \/ pc[w] \in {"validate", "save", "print", "sched"}
    \/ pc[w] = "train" /\ train_iter[w] = << >>
    \/ pc[w] \in {"for_epoch", "shuffle", "test", "Done"} /\ epoch[w] >= 1

AllDrained == \A w \in Ranks : Drained(w)

(* The seeds the workers drew in that epoch, rank after rank.              *)
TrainDraws == Concat([i \in 1 .. nprocs |-> Concat(seen_train[i - 1])])

TrainBatches == SumSeq([i \in 1 .. nprocs |-> Len(seen_train[i - 1])])

IsPermutationOf(s, nid) ==
    /\ Len(s) = Len(nid)
    /\ \A i \in 1 .. Len(nid) : Count(s, nid[i]) = 1

IsToyRun == nprocs = ToyRun.nprocs /\ args = ToyRun.args /\ g = ToyRun.g

BatchSizes(w) == [i \in 1 .. Len(seen_train[w]) |-> Len(seen_train[w][i])]

(* C4 as stated: 70 train seeds, batch size 10, 2 workers, 1 epoch: the    *)
(* run completes with 7 train minibatches drawn in total.                  *)
C4_Original == (IsToyRun /\ AllDone) => TrainBatches = 7

(* C4, amended: 70 train seeds, batch size 10, 2 workers, 1 epoch: the run *)
(* never fails or blocks, and ends with 8 train minibatches drawn in       *)
(* total, 4 per worker (ceil(35 / 10)), the short last one of 5 seeds      *)
(* kept.                                                                   *)
C4_EightBatches ==
    IsToyRun =>
        /\ \A w \in Ranks : pc[w] \notin {"Failed", "Killed"}
        /\ exit_code = 0 \/ ENABLED Next
        /\ AllDone =>
            /\ TrainBatches = 8
            /\ \A w \in Ranks : BatchSizes(w) = << 10, 10, 10, 5 >>

C4_Witness == IsToyRun /\ exit_code = 0 /\ TrainBatches = 8

(* C5: every validation pass scores every validation seed exactly once and *)
(* the test pass every test seed exactly once, for every worker count.     *)
C5_FullEvaluation ==
    /\ Len(evals) > 0 => IsPermutationOf(val_seen, val_nid)
    /\ pc[Leader] = "Done" => IsPermutationOf(test_seen, test_nid)

-----------------------------------------------------------------------------
(* Replicas, collectives and roles                                         *)

(* C6: the workers start with identical parameters, and workers that have  *)
(* taken the same number of training steps hold identical parameters.      *)
C6_ReplicasAgree ==
    \A u, w \in Ranks : opt_steps[u] = opt_steps[w] => model[u] = model[w]

(* Two workers, past the first epoch, after steps that moved the           *)
(* parameters.                                                             *)
C6_Witness ==
    /\ nprocs = 2
    /\ opt_steps[0] = opt_steps[1]
    /\ opt_steps[0] >= 3
    /\ epoch[0] >= 1 /\ epoch[1] >= 1
    /\ model[0] # InitParams(ManualSeed)

SomeFailed == \E w \in Ranks : pc[w] = "Failed"

(* C7: in a run in which no worker fails, every worker eventually reaches  *)
(* Done: nobody waits forever in a collective.                             *)
C7_AllFinish == <>(AllDone \/ SomeFailed)

(* Two workers finished a run of two evaluated epochs.                     *)
C7_Witness ==
    /\ nprocs = 2
    /\ AllDone
    /\ args.epochs = 2
    /\ Len(evals) = 2
    /\ Len(train_nid) = 3

(* C8: only the leader changes a best-accuracy tracker, validates, tests,  *)
(* prints or writes the checkpoint, and at most one checkpoint write is in *)
(* progress.                                                               *)
C8_LeaderOnly ==
    /\ \A w \in Ranks \ {Leader} :
        /\ best_accuracy[w] = 0
        /\ val_acc[w] = -1
        /\ test_runs[w] = 0
        /\ pc[w] \notin {"validate", "save", "print", "test"}
    /\ \A i \in 1 .. Len(evals) : evals[i].rank = Leader
    /\ \A i \in 1 .. Len(writes) : writes[i].rank = Leader
    /\ \A i \in 1 .. Len(log) : log[i].rank = Leader
    /\ Cardinality({w \in Ranks : pc[w] = "save"}) <= 1

(* The leader is writing the checkpoint while the other worker has gone on *)
(* to the next epoch.                                                      *)
C8_Witness ==
    /\ nprocs = 2
    /\ pc[Leader] = "save"
    /\ pc[1] = "shuffle"
    /\ epoch[1] = epoch[Leader] + 1

(* Minibatches a worker draws per epoch.                                   *)
BatchesPerEpoch == Ceil(NumSamples(Len(train_nid)), args.batch_size)

(* C9: every worker steps the schedule once per epoch, after the epoch's   *)
(* training; after k epochs the rate has been decayed floor(k / step_size) *)
(* times, on every worker alike.                                           *)
C9_StepDecay ==
    \A w \in Ranks :
        /\ sched[w].last_epoch = epoch[w]
        /\ sched[w].decays = epoch[w] \div args.sched_stepsize
        /\ opt_steps[w] >= sched[w].last_epoch * BatchesPerEpoch
        /\ opt_steps[w] <= (sched[w].last_epoch + 1) * BatchesPerEpoch
        /\ \A u \in Ranks : epoch[u] = epoch[w] => sched[u] = sched[w]

(* Step size 25, 60 epochs: two decays, on both workers.                   *)
C9_Witness ==
    /\ args.sched_stepsize = 25
    /\ nprocs = 2
    /\ \A w \in Ranks : epoch[w] = 60 /\ sched[w].decays = 2

(* C10: the test pass runs once, on the leader only, after the training    *)
(* and the schedule step of every epoch (of none when epochs is 0), and    *)
(* changes neither the checkpoint nor the tracker.                         *)
C10_FinalTest ==
    /\ [](/\ \A w \in Ranks \ {Leader} : test_runs[w] = 0 /\ pc[w] # "test"
          /\ test_runs[Leader] <= 1
          /\ (pc[Leader] = "test" \/ test_runs[Leader] = 1) =>
                /\ epoch[Leader] = args.epochs
                /\ sched[Leader].last_epoch = args.epochs
                /\ opt_steps[Leader] = args.epochs * BatchesPerEpoch
          /\ pc[Leader] = "test" => test_runs[Leader] = 0
          /\ pc[Leader] = "Done" => test_runs[Leader] = 1)
    /\ [][test_runs' # test_runs =>
            UNCHANGED << checkpoint, writes, best_accuracy >>]_vars

(* The test pass ran after two epochs, one of which wrote a checkpoint.    *)
C10_Witness ==
    /\ args.epochs = 2
    /\ test_runs[Leader] = 1
    /\ pc[Leader] = "Done"
    /\ Len(writes) = 1

(* The test pass ran in a run of no epochs.                                *)
C10_WitnessNoEpochs ==
    /\ args.epochs = 0
    /\ test_runs[Leader] = 1
    /\ pc[Leader] = "Done"

-----------------------------------------------------------------------------
(* Failures                                                                *)

NoTestLine == \A i \in 1 .. Len(log) : log[i].kind # "test"

(* C11 as stated: once a worker has failed, no worker is or becomes Done,  *)
(* and the run ends with a non-zero exit and without a test-accuracy line. *)
C11_Original ==
    SomeFailed =>
        /\ \A w \in Ranks : pc[w] # "Done"
        /\ NoTestLine
        /\ exit_code # 0

(* C11, amended: a failed worker stays failed (its step is not retried),   *)
(* the parent can always abort and never exits with 0, after the abort no  *)
(* worker is alive, the leader is not Done and no test-accuracy line was   *)
(* printed; a worker that is Done beside a failure is a non-leader that    *)
(* returned from a fully trained run whose leader failed afterwards, in    *)
(* the last epoch's validation or in the test pass.                        *)
C11_FailFast ==
    /\ [](SomeFailed =>
            /\ pc[Leader] # "Done"
            /\ NoTestLine
            /\ exit_code # 0
            /\ exit_code = -1 => ENABLED SpawnAbort
            /\ exit_code = 1 => \A w \in Ranks : ~Alive(w)
            /\ \A w \in Ranks : pc[w] = "Done" =>
                    /\ pc[Leader] = "Failed"
                    /\ epoch[Leader] >= args.epochs - 1
                    /\ opt_steps[Leader] = args.epochs * BatchesPerEpoch)
    /\ [][/\ \A w \in Ranks :
                pc[w] \in {"Failed", "Killed"} =>
                    /\ pc'[w] = pc[w]
                    /\ opt_steps'[w] = opt_steps[w]
                    /\ epoch'[w] = epoch[w]
          /\ exit_code = 1 => exit_code' = 1]_vars

(* A worker's training step raised while the other waited in the gradient  *)
(* all-reduce, and the run was aborted.                                    *)
C11_Witness ==
    /\ nprocs = 2
    /\ oom = 1
    /\ pc[1] = "Failed"
    /\ pc[Leader] = "Killed"
    /\ opt_steps[Leader] = 1
    /\ exit_code = 1

-----------------------------------------------------------------------------
(* The masks                                                               *)

MasksOverlap == g.train_mask \cap g.val_mask \cap g.test_mask # {}

(* C12: a graph whose train, validation and test masks have a node in      *)
(* common is rejected when the loaders are built: no worker draws a train  *)
(* minibatch, takes a training step or returns from run().                 *)
C12_OverlapRejected ==
    MasksOverlap =>
        \A w \in Ranks :
            /\ seen_train[w] = << >>
            /\ opt_steps[w] = 0
            /\ pc[w] # "Done"

-----------------------------------------------------------------------------
(* Lock-step                                                               *)

Evaluating(w) == pc[w] \in {"validate", "save", "print"}

(* C13: a worker takes the optimizer step of a training step only when     *)
(* every worker has finished the backward pass of that step of the same    *)
(* epoch; two workers differ by at most one optimizer step; a non-leader   *)
(* is at most one epoch ahead of the evaluating leader and has completed   *)
(* no training step of that epoch.                                         *)
C13_LockStep ==
    /\ [](\A u, w \in Ranks :
            /\ opt_steps[u] - opt_steps[w] <= 1
            /\ (Evaluating(Leader) /\ epoch[w] # epoch[Leader]) =>
                    /\ epoch[w] = epoch[Leader] + 1
                    /\ opt_steps[w] = opt_steps[Leader])
    /\ [][\A w \in Ranks :
            opt_steps'[w] # opt_steps[w] =>
                \A u \in Ranks :
                    /\ opt_steps[u] >= opt_steps[w]
                    /\ opt_steps[u] = opt_steps[w] =>
                            /\ pc[u] = "backward"
                            /\ pending[u] = "ready"
                            /\ epoch[u] = epoch[w]
                            /\ accs[u] = accs[w]]_vars

(* The leader validates epoch 0 while the other worker, one step behind a  *)
(* moment ago, has entered epoch 1 and waits for the leader there.         *)
C13_Witness ==
    /\ nprocs = 2
    /\ pc[Leader] = "validate"
    /\ epoch[Leader] = 0
    /\ epoch[1] = 1
    /\ pc[1] = "shuffle"
    /\ pending[1] = "barrier"
    /\ opt_steps[1] = 2

-----------------------------------------------------------------------------
(* Evaluation schedule and log                                             *)

EpochLines == {i \in 1 .. Len(log) : log[i].kind = "epoch"}

TestLines == {i \in 1 .. Len(log) : log[i].kind = "test"}

EvalEpochs == {evals[j].epoch : j \in 1 .. Len(evals)}

(* C14: validation passes are the leader's and happen at the epochs e of   *)
(* [0, E) with e mod log_every = 0, each epoch the leader has passed being *)
(* evaluated iff it is one of these; a completed run has ceil(E / k)       *)
(* validation passes and epoch log lines, epoch 0 among them when E >= 1,  *)
(* and one test-accuracy line, all of them the leader's.                   *)
C14_EvalSchedule ==
    /\ \A j \in 1 .. Len(evals) :
        /\ evals[j].rank = Leader
        /\ evals[j].epoch % args.log_every = 0
        /\ evals[j].epoch < args.epochs
    /\ \A e \in 0 .. (epoch[Leader] - 1) :
        e \in EvalEpochs <=> e % args.log_every = 0
    /\ \A i \in 1 .. Len(log) : log[i].rank = Leader
    /\ Cardinality(TestLines) <= 1
    /\ AllDone =>
        /\ EvalEpochs = {e \in 0 .. (args.epochs - 1) : e % args.log_every = 0}
        /\ Len(evals) = Ceil(args.epochs, args.log_every)
        /\ Cardinality(EpochLines) = Ceil(args.epochs, args.log_every)
        /\ Cardinality(TestLines) = 1
        /\ args.epochs >= 1 => evals[1].epoch = 0

(* Sixty epochs evaluated every fifth: twelve validation lines.            *)
C14_Witness ==
    /\ args.epochs = 60
    /\ args.log_every = 5
    /\ AllDone
    /\ Cardinality(EpochLines) = 12
    /\ Cardinality(TestLines) = 1

(* C15: every epoch log line belongs to an epoch in which validation ran   *)
(* and carries the accuracy that validation pass computed; a line is       *)
(* printed right after the validation pass of the leader's current epoch.  *)
C15_FreshLogLine ==
    /\ [](\A i \in EpochLines :
            /\ log[i].epoch % args.log_every = 0
            /\ log[i].acc # -1
            /\ \E j \in 1 .. Len(evals) :
                /\ evals[j].epoch = log[i].epoch
                /\ evals[j].acc = log[i].acc)
    /\ [][(pc[Leader] = "print" /\ log' # log) =>
            /\ Len(evals) > 0
            /\ evals[Len(evals)].epoch = epoch[Leader]
            /\ log' = Append(log, [kind |-> "epoch", rank |-> Leader,
                                   epoch |-> epoch[Leader],
                                   acc |-> evals[Len(evals)].acc])]_vars

(* Two epochs evaluated every second: epoch 1 printed nothing.             *)
C15_Witness ==
    /\ args.log_every = 2
    /\ args.epochs = 2
    /\ pc[Leader] = "Done"
    /\ Cardinality(EpochLines) = 1
    /\ log[1].epoch = 0
    /\ log[1].acc = 50

-----------------------------------------------------------------------------
(* The checkpoint                                                          *)

(* The highest accuracy of a sequence of validation passes, 0 if none.     *)
BestOf(es) ==
    LET as == {0} \cup {es[j].acc : j \in 1 .. Len(es)}
    IN  CHOOSE m \in as : \A a \in as : a <= m

(* C16: without model_save nothing is ever written, while the tracker is   *)
(* the highest validation accuracy so far (0 if none), with or without     *)
(* model_save.                                                             *)
C16_NoSaveSameTracker ==
    /\ ~args.model_save =>
        /\ writes = << >>
        /\ checkpoint = NoFile
        /\ \A w \in Ranks : pc[w] # "save"
    /\ best_accuracy[Leader] = BestOf(evals)

(* Without model_save the tracker rose from 0 to 50 and nothing was        *)
(* written.                                                                *)
C16_Witness ==
    /\ ~args.model_save
    /\ Len(evals) = 2
    /\ evals[1].acc = 0
    /\ evals[2].acc = 50
    /\ best_accuracy[Leader] = 50
    /\ writes = << >>
    /\ pc[Leader] = "Done"

(* The file after the validation passes es, each improving one written.    *)
CheckpointAfter(es) ==
    IF BestOf(es) = 0 THEN NoFile
    ELSE LET j == CHOOSE j \in 1 .. Len(es) :
                    /\ es[j].acc = BestOf(es)
                    /\ \A i \in 1 .. (j - 1) : es[i].acc < BestOf(es)
         IN  [epoch |-> es[j].epoch, state |-> es[j].state]

(* C17: with model_save the checkpoint holds the model state of the        *)
(* earliest validation pass that reached the highest accuracy so far, and  *)
(* there is no file while no pass has scored above 0; while the write of   *)
(* the last pass is under way (or was cut off by an abort) the file is     *)
(* still that of the passes before it.                                     *)
C17_CheckpointIsEarliestBest ==
    args.model_save =>
        IF pc[Leader] = "save"
        THEN checkpoint = CheckpointAfter(SubSeq(evals, 1, Len(evals) - 1))
        ELSE IF pc[Leader] = "Killed" /\ Len(evals) > 0
        THEN checkpoint \in {CheckpointAfter(evals),
                             CheckpointAfter(SubSeq(evals, 1, Len(evals) - 1))}
        ELSE checkpoint = CheckpointAfter(evals)

(* Two passes scored 50: the file is the first one's, and the model has    *)
(* moved on since.                                                         *)
C17_Witness ==
    /\ args.model_save
    /\ Len(evals) = 2
    /\ evals[1].acc = 50
    /\ evals[2].acc = 50
    /\ checkpoint.epoch = 0
    /\ checkpoint.state = evals[1].state
    /\ checkpoint.state # model[Leader]
    /\ pc[Leader] = "Done"

-----------------------------------------------------------------------------
(* Empty and uneven pipelines                                              *)

(* C18: in an epoch every worker draws the same number of minibatches,     *)
(* ceil(ceil(|S| / N) / batch_size); while a worker waits in a gradient    *)
(* all-reduce every other worker is in the training of the same epoch with *)
(* that step still to come or entered.                                     *)
C18_EqualBatchCounts ==
    \A w \in Ranks :
        /\ pc[w] \in {"train", "backward"} =>
                Len(seen_train[w]) + Len(train_iter[w]) = BatchesPerEpoch
        /\ Drained(w) => Len(seen_train[w]) = BatchesPerEpoch
        /\ pending[w] = "allreduce" =>
                \A u \in Ranks :
                    /\ epoch[u] = epoch[w]
                    /\ pc[u] \in {"shuffle", "train", "backward", "Failed",
                                 "Killed"}
                    /\ pc[u] = "train" => train_iter[u] # << >>

(* Three seeds, two workers, batch size 1: both drew two minibatches.      *)
C18_Witness ==
    /\ nprocs = 2
    /\ Len(train_nid) = 3
    /\ args.batch_size = 1
    /\ AllDone
    /\ Len(seen_train[0]) = 2
    /\ Len(seen_train[1]) = 2

EvalBatches(nid) == Batches(EvalShard(nid, Leader), args.batch_size)

(* C19: a worker whose train loader yields no minibatch fails at the end   *)
(* of that epoch's training: no validation, schedule step, checkpoint      *)
(* write or later epoch follows; a validation or test pass whose loader    *)
(* yields no minibatch fails and reports no accuracy.                      *)
C19_EmptyPipelinesFail ==
    /\ [](BatchesPerEpoch = 0 =>
            /\ evals = << >> /\ writes = << >> /\ EpochLines = {}
            /\ \A w \in Ranks :
                /\ epoch[w] = 0
                /\ sched[w].last_epoch = 0
                /\ pc[w] \notin {"validate", "save", "print", "sched"}
                /\ args.epochs >= 1 => pc[w] \notin {"test", "Done"})
    /\ [](EvalBatches(val_nid) = << >> =>
            /\ evals = << >> /\ writes = << >> /\ EpochLines = {}
            /\ val_acc[Leader] = -1
            /\ args.epochs >= 1 => pc[Leader] \notin {"test", "Done"})
    /\ [](EvalBatches(test_nid) = << >> =>
            /\ TestLines = {}
            /\ pc[Leader] # "Done")
    /\ [][\A w \in Ranks :
            /\ (pc[w] = "train" /\ train_iter[w] = << >> /\ accs[w] = 0
                    /\ pc'[w] # pc[w]) => pc'[w] \in {"Failed", "Killed"}
            /\ (pc[w] = "validate" /\ EvalBatches(val_nid) = << >>
                    /\ pc'[w] # pc[w]) => pc'[w] \in {"Failed", "Killed"}
            /\ (pc[w] = "test" /\ EvalBatches(test_nid) = << >>
                    /\ pc'[w] # pc[w]) => pc'[w] \in {"Failed", "Killed"}]_vars

(* No train seed: both workers divided by zero in epoch 0.                 *)
C19_Witness ==
    /\ nprocs = 2
    /\ Len(train_nid) = 0
    /\ args.epochs = 2
    /\ pc[0] = "Failed"
    /\ pc[1] = "Failed"
    /\ epoch[0] = 0
    /\ exit_code = 1

====
